---- MODULE Spec2Model ----
(***************************************************************************)
(* Model of src/app.py: SyntheticImageGenerator.                           *)
(*                                                                         *)
(* Construction validates the input and output directories and builds the  *)
(* foreground catalog and the background pool.  generate_images then runs  *)
(* _generate_image once per index 1..image_number, in a loop or as joblib  *)
(* tasks.  Pixels are abstracted: a composite is the background plus the   *)
(* ordered list of paste operations, an annotation is the dict the code    *)
(* dumps as JSON.  Random draws are nondeterministic choices recorded per  *)
(* index in `draws`; an I/O fault of the environment is part of that       *)
(* record.  The augmentation pipeline is pixel-level and is not modelled.  *)
(***************************************************************************)
EXTENDS Integers, Sequences, FiniteSets, TLC

(* ------------------------------ bounds -------------------------------- *)

MaxImages == 2        \* image_number of the batch specification
MaxObjects == 2       \* max_objects_per_image of the composition specification
CanvasWidth == 2      \* image_width of the composition specification
CanvasHeight == 1     \* image_height of the composition specification

(* --------------------------- program constants ------------------------ *)

zero_padding == 8

(* ------------------------------ helpers ------------------------------- *)

Max(a, b) == IF a >= b THEN a ELSE b

RECURSIVE Pow10(_)
Pow10(n) == IF n = 0 THEN 1 ELSE 10 * Pow10(n - 1)

Runs == {"seq", "par"}

(* The two execution modes of generate_images, selected by self.parallelize *)
parallelize(r) == r = "par"

(* --------------------------- the environment -------------------------- *)

(* Pixel sizes <<width, height>> of the foreground PNG files. *)
FgSize == [a |-> <<1, 1>>, b |-> <<2, 2>>, c |-> <<4, 3>>]

(* Contents of <input_dir>/foregrounds: entry name -> is it a directory,   *)
(* and the *.png files in it.                                              *)
LayoutFull ==
    [cat    |-> [is_dir |-> TRUE,  pngs |-> {"a"}],
     dog    |-> [is_dir |-> TRUE,  pngs |-> {"c"}],
     bird   |-> [is_dir |-> TRUE,  pngs |-> {}],
     readme |-> [is_dir |-> FALSE, pngs |-> {}]]

LayoutSingle ==
    [cat    |-> [is_dir |-> TRUE,  pngs |-> {"a"}],
     bird   |-> [is_dir |-> TRUE,  pngs |-> {}]]

LayoutNoPng ==
    [bird   |-> [is_dir |-> TRUE,  pngs |-> {}],
     readme |-> [is_dir |-> FALSE, pngs |-> {}]]

(* Contents of <input_dir>/backgrounds: sets of <<name, extension>>. *)
BackgroundDirs == { {<<"sky", "jpg">>}, {<<"notes", "txt">>}, {} }

(* Scale factors random.uniform can return, as <<numerator, denominator>>. *)
ScalingFactors == { <<1, 2>>, <<1, 1>> }

Faults == {"none", "load", "save", "open", "dump"}

VARIABLES
    env,               \* the file system found at construction
    cfg,               \* the constructor's arguments
    active,            \* the execution modes exercised
    phase,             \* "new", "constructed" or "failed" (constructor raised)
    foregrounds_dict,  \* self.foregrounds_dict
    background_images, \* self.background_images
    status,            \* per run: "idle", "running", "returned"
    pc,                \* per run and index: position inside _generate_image
    attempts,          \* per run and index: calls of _generate_image
    local,             \* per run and index: composite and annotations
    disk,              \* per run: the output directory, path -> content
    log,               \* per run and index: logging.error calls
    draws              \* per index: the random draws and the fault drawn

vars == <<env, cfg, active, phase, foregrounds_dict, background_images,
          status, pc, attempts, local, disk, log, draws>>

Indices == 1..cfg.image_number

NoDraw == [background |-> <<>>, fgs |-> <<>>, fault |-> "undrawn"]

NoLocal == [composite |-> <<>>, annotations |-> <<>>]

EmptyDict == [c \in {} |-> {}]

(* ---------------------------- construction ---------------------------- *)

(* _validate_input_directory up to the two _process calls: does it raise? *)
validate_input_directory_raises(e) ==
    \/ ~e.input_exists
    \/ ~e.fg_is_dir
    \/ ~e.bg_is_dir

(* _process_foregrounds without the `if images:` test. *)
process_foregrounds_unfiltered(layout) ==
    [c \in {n \in DOMAIN layout : layout[n].is_dir} |-> layout[c].pngs]

(* _process_foregrounds: one key per category directory holding a PNG. *)
process_foregrounds(layout) ==
    [c \in {n \in DOMAIN layout : layout[n].is_dir /\ layout[n].pngs # {}}
        |-> layout[c].pngs]

(* _process_backgrounds: the *.png, *.jpg and *.jpeg files of the pool. *)
process_backgrounds(bgdir) ==
    {f \in bgdir : f[2] \in {"png", "jpg", "jpeg"}}

(* _validate_output_directory without the FileExistsError branch. *)
validate_output_directory_accepts(out_state) == FALSE

(* _validate_output_directory: raises on a directory that holds anything. *)
validate_output_directory_raises(out_state) ==
    out_state = "nonempty"

(* __init__: the three validation steps in order; the first raise ends it. *)
Construct ==
    /\ phase = "new"
    /\ IF validate_input_directory_raises(env)
       THEN /\ phase' = "failed"
            /\ UNCHANGED <<env, foregrounds_dict, background_images>>
       ELSE LET fd == process_foregrounds(env.layout)
                bg == process_backgrounds(env.backgrounds)
            IN  IF DOMAIN fd = {}
                THEN /\ phase' = "failed"
                     /\ foregrounds_dict' = fd
                     /\ UNCHANGED <<env, background_images>>
                ELSE IF bg = {}
                THEN /\ phase' = "failed"
                     /\ foregrounds_dict' = fd
                     /\ background_images' = bg
                     /\ UNCHANGED env
                ELSE /\ foregrounds_dict' = fd
                     /\ background_images' = bg
                     /\ IF validate_output_directory_raises(env.out_state)
                        THEN phase' = "failed" /\ UNCHANGED env
                        ELSE /\ phase' = "constructed"
                             /\ env' = [env EXCEPT !.out_state =
                                           IF @ = "absent" THEN "empty" ELSE @]
    /\ UNCHANGED <<cfg, active, status, pc, attempts, local, disk, log, draws>>

(* ---------------------------- composition ----------------------------- *)

(* int(fg_image.width * scale), int(fg_image.height * scale) *)
new_size(path, scale) ==
    << (FgSize[path][1] * scale[1]) \div scale[2],
       (FgSize[path][2] * scale[1]) \div scale[2] >>

(* Image.resize raises ValueError on a size with a zero side. *)
resize_raises(size) == size[1] < 1 \/ size[2] < 1

(* The dict appended to annotations['shapes'] for one foreground. *)
shape_of(fg, size) ==
    [label      |-> fg.category,
     points     |-> << <<fg.x, fg.y>>, <<fg.x + size[1], fg.y + size[2]>> >>,
     shape_type |-> "rectangle"]

(* composite.paste(fg_image, (x, y), mask) *)
paste_of(fg, size) ==
    [image_path |-> fg.image_path, x |-> fg.x, y |-> fg.y,
     width |-> size[1], height |-> size[2]]

(* The loop with a foreground that fails to resize skipped (`continue`). *)
RECURSIVE compose_loop_skip(_, _, _, _)
compose_loop_skip(fgs, j, pasted, shapes) ==
    IF j > Len(fgs)
    THEN [raised |-> FALSE, pasted |-> pasted, shapes |-> shapes]
    ELSE LET size == new_size(fgs[j].image_path, fgs[j].scale)
         IN  IF resize_raises(size)
             THEN compose_loop_skip(fgs, j + 1, pasted, shapes)
             ELSE compose_loop_skip(fgs, j + 1,
                                    Append(pasted, paste_of(fgs[j], size)),
                                    Append(shapes, shape_of(fgs[j], size)))

(* The for loop of _compose_images from foreground j on. *)
RECURSIVE compose_loop(_, _, _, _)
compose_loop(fgs, j, pasted, shapes) ==
    IF j > Len(fgs)
    THEN [raised |-> FALSE, pasted |-> pasted, shapes |-> shapes]
    ELSE LET size == new_size(fgs[j].image_path, fgs[j].scale)
         IN  IF resize_raises(size)
             THEN [raised |-> TRUE, pasted |-> <<>>, shapes |-> <<>>]
             ELSE compose_loop(fgs, j + 1,
                               Append(pasted, paste_of(fgs[j], size)),
                               Append(shapes, shape_of(fgs[j], size)))

(* _compose_images: opens the background, then runs the loop. *)
compose_images(d, c) ==
    IF d.fault = "load"
    THEN [raised |-> TRUE, composite |-> <<>>, annotations |-> <<>>]
    ELSE LET r == compose_loop(d.fgs, 1, <<>>, <<>>)
         IN  IF r.raised
             THEN [raised |-> TRUE, composite |-> <<>>, annotations |-> <<>>]
             ELSE [raised      |-> FALSE,
                   composite   |-> [background |-> d.background,
                                    size       |-> <<c.image_width, c.image_height>>,
                                    pasted     |-> r.pasted],
                   annotations |-> [shapes      |-> r.shapes,
                                    imageWidth  |-> c.image_width,
                                    imageHeight |-> c.image_height]]

(* ---------------------------- random draws ---------------------------- *)

(* One element of `foregrounds` with the scale and position drawn for it:  *)
(* the category and the asset are two independent random.choice calls.     *)
FgDraws ==
    {d \in [category   : DOMAIN foregrounds_dict,
            image_path : UNION {foregrounds_dict[k] : k \in DOMAIN foregrounds_dict},
            scale      : ScalingFactors,
            x          : 0..cfg.image_width,
            y          : 0..cfg.image_height] :
        LET size == new_size(d.image_path, d.scale)
        IN  IF resize_raises(size)
            THEN d.x = 0 /\ d.y = 0
            ELSE /\ d.x <= Max(0, cfg.image_width - size[1])
                 /\ d.y <= Max(0, cfg.image_height - size[2])}

(* Draws never reached (the background failed to load, or an earlier       *)
(* resize raised) are recorded with fixed values.                          *)
Undrawn(d) == d.scale = (CHOOSE s \in ScalingFactors : TRUE) /\ d.x = 0 /\ d.y = 0

(* Everything _generate_image(i) draws, and the fault it meets. *)
Tapes ==
    {t \in UNION {[background : background_images,
                   fgs        : [1..k -> FgDraws],
                   fault      : Faults] : k \in 1..cfg.max_objects_per_image} :
        /\ t.fault = "load" => \A j \in DOMAIN t.fgs : Undrawn(t.fgs[j])
        /\ t.fault # "load" =>
             \A j \in DOMAIN t.fgs :
                 resize_raises(new_size(t.fgs[j].image_path, t.fgs[j].scale)) =>
                     /\ t.fault = "none"
                     /\ \A l \in DOMAIN t.fgs : l > j => Undrawn(t.fgs[l])}

(* ------------------------------ output -------------------------------- *)

(* A file name that does not depend on the index. *)
save_filename_shared(n) == [d \in 1..zero_padding |-> 0]

(* f'{image_number:0{self.zero_padding}}' as its decimal digits *)
save_filename(n) ==
    [d \in 1..zero_padding |-> (n \div Pow10(zero_padding - d)) % 10]

composite_path(n) == <<save_filename(n), "jpg">>

json_path(n) == <<save_filename(n), "json">>

(* Writing a file into a directory creates or replaces it. *)
WriteFile(dir, path, content) ==
    [q \in DOMAIN dir \cup {path} |-> IF q = path THEN content ELSE dir[q]]

(* What json.dump leaves when the write fails after open(..., 'w'). *)
Truncated(path) ==
    [complete |-> FALSE, shapes |-> <<>>, imageWidth |-> 0, imageHeight |-> 0,
     imagePath |-> path]

(* The dict dumped on success, imagePath added. *)
Annotation(ann, path) ==
    [complete |-> TRUE, shapes |-> ann.shapes, imageWidth |-> ann.imageWidth,
     imageHeight |-> ann.imageHeight, imagePath |-> path]

(* composite.convert('RGB').save(composite_path, format='JPEG') *)
Jpeg(composite) == [mode |-> "RGB", format |-> "JPEG", image |-> composite]

(* ------------------------------ the batch ----------------------------- *)

(* generate_images: entered once per run, after construction succeeded. *)
generate_images(r) ==
    /\ phase = "constructed"
    /\ r \in active
    /\ status[r] = "idle"
    /\ status' = [status EXCEPT ![r] = "running"]
    /\ UNCHANGED <<env, cfg, active, phase, foregrounds_dict, background_images,
                   pc, attempts, local, disk, log, draws>>

(* The handler raising again: the exception leaves generate_images. *)
except_reraise(st) == "returned"

(* except Exception as e: the status of the run after index i raised.      *)
(* The exception is logged and swallowed, the run goes on.                 *)
except_exception(st) == st

(* The except clause of _generate_image. *)
Caught(r, i) ==
    /\ log' = [log EXCEPT ![r][i] = @ + 1]
    /\ pc' = [pc EXCEPT ![r][i] = "done"]
    /\ local' = [local EXCEPT ![r][i] = NoLocal]
    /\ status' = [status EXCEPT ![r] = except_exception(@)]

(* The loop of generate_images hands out index i: in order when            *)
(* sequential, any pending index as a joblib task when parallel.           *)
Dispatched(r, i) ==
    /\ phase = "constructed"
    /\ r \in active
    /\ status[r] = "running"
    /\ i \in Indices
    /\ pc[r][i] = "idle"
    /\ parallelize(r) \/ \A j \in 1..(i - 1) : pc[r][j] = "done"

(* _generate_image, lines 89-100: the draws and _compose_images. *)
generate_image_compose(r, i) ==
    /\ Dispatched(r, i)
    /\ \E t \in (IF draws[i] = NoDraw THEN Tapes ELSE {draws[i]}) :
          /\ draws' = [draws EXCEPT ![i] = t]
          /\ attempts' = [attempts EXCEPT ![r][i] = @ + 1]
          /\ LET res == compose_images(t, cfg)
             IN  IF res.raised
                 THEN Caught(r, i)
                 ELSE /\ local' = [local EXCEPT ![r][i] =
                                     [composite   |-> res.composite,
                                      annotations |-> res.annotations]]
                      /\ pc' = [pc EXCEPT ![r][i] = "save"]
                      /\ UNCHANGED <<log, status>>
    /\ UNCHANGED <<env, cfg, active, phase, foregrounds_dict, background_images, disk>>

(* _generate_image, lines 101-105: the JPEG is saved; Image.save removes   *)
(* the file it created when the encoder raises.                            *)
generate_image_save(r, i) ==
    /\ r \in active
    /\ status[r] = "running"
    /\ i \in Indices
    /\ pc[r][i] = "save"
    /\ IF draws[i].fault = "save"
       THEN Caught(r, i) /\ UNCHANGED disk
       ELSE /\ disk' = [disk EXCEPT ![r] =
                          WriteFile(@, composite_path(i), Jpeg(local[r][i].composite))]
            /\ pc' = [pc EXCEPT ![r][i] = "json"]
            /\ UNCHANGED <<local, log, status>>
    /\ UNCHANGED <<env, cfg, active, phase, foregrounds_dict, background_images,
                   attempts, draws>>

(* _generate_image, lines 107-109: the annotation file is opened for       *)
(* writing and the dict dumped into it.                                    *)
generate_image_json(r, i) ==
    /\ r \in active
    /\ status[r] = "running"
    /\ i \in Indices
    /\ pc[r][i] = "json"
    /\ IF draws[i].fault = "open"
       THEN Caught(r, i) /\ UNCHANGED disk
       ELSE IF draws[i].fault = "dump"
       THEN /\ Caught(r, i)
            /\ disk' = [disk EXCEPT ![r] =
                          WriteFile(@, json_path(i), Truncated(composite_path(i)))]
       ELSE /\ disk' = [disk EXCEPT ![r] =
                          WriteFile(@, json_path(i),
                                    Annotation(local[r][i].annotations, composite_path(i)))]
            /\ pc' = [pc EXCEPT ![r][i] = "done"]
            /\ local' = [local EXCEPT ![r][i] = NoLocal]
            /\ UNCHANGED <<log, status>>
    /\ UNCHANGED <<env, cfg, active, phase, foregrounds_dict, background_images,
                   attempts, draws>>

(* generate_images returns: the loop is over, or Parallel has collected    *)
(* every task.                                                             *)
generate_images_return(r) ==
    /\ r \in active
    /\ status[r] = "running"
    /\ \A i \in Indices : pc[r][i] = "done"
    /\ status' = [status EXCEPT ![r] = "returned"]
    /\ UNCHANGED <<env, cfg, active, phase, foregrounds_dict, background_images,
                   pc, attempts, local, disk, log, draws>>

Next ==
    \/ Construct
    \/ \E r \in Runs : generate_images(r)
    \/ \E r \in Runs, i \in 1..cfg.image_number : generate_image_compose(r, i)
    \/ \E r \in Runs, i \in 1..cfg.image_number : generate_image_save(r, i)
    \/ \E r \in Runs, i \in 1..cfg.image_number : generate_image_json(r, i)
    \/ \E r \in Runs : generate_images_return(r)

(* --------------------------- initial states --------------------------- *)

(* The file systems a generator can be constructed on. *)
Envs(layouts) ==
    {e \in [input_exists : BOOLEAN,
            fg_is_dir    : BOOLEAN,
            bg_is_dir    : BOOLEAN,
            layout       : layouts,
            backgrounds  : BackgroundDirs,
            out_state    : {"absent", "empty", "nonempty"}] :
        ~e.input_exists => ~e.fg_is_dir /\ ~e.bg_is_dir}

InitState ==
    /\ phase = "new"
    /\ foregrounds_dict = EmptyDict
    /\ background_images = {}
    /\ status = [r \in Runs |-> "idle"]
    /\ pc = [r \in Runs |-> [i \in Indices |-> "idle"]]
    /\ attempts = [r \in Runs |-> [i \in Indices |-> 0]]
    /\ local = [r \in Runs |-> [i \in Indices |-> NoLocal]]
    /\ disk = [r \in Runs |-> <<>>]
    /\ log = [r \in Runs |-> [i \in Indices |-> 0]]
    /\ draws = [i \in Indices |-> NoDraw]

(* One image of up to MaxObjects objects on the CanvasWidth x CanvasHeight *)
(* canvas, generated in either mode.                                       *)
Init ==
    /\ env \in Envs({LayoutFull, LayoutNoPng})
    /\ cfg \in [image_number          : {1},
                max_objects_per_image : {MaxObjects},
                image_width           : {CanvasWidth},
                image_height          : {CanvasHeight},
                avoid_collisions      : BOOLEAN]
    /\ active \in {{"seq"}, {"par"}}
    /\ InitState

Spec == Init /\ [][Next]_vars

(* A batch of MaxImages single-object images on a 1 x 1 canvas, generated  *)
(* sequentially into one output directory and in parallel into another,    *)
(* both from the same draws.                                               *)
InitBatch ==
    /\ env \in Envs({LayoutSingle, LayoutNoPng})
    /\ cfg \in [image_number          : {MaxImages},
                max_objects_per_image : {1},
                image_width           : {1},
                image_height          : {1},
                avoid_collisions      : {FALSE}]
    /\ active = Runs
    /\ InitState

SpecBatch == InitBatch /\ [][Next]_vars

(* ------------------------------ properties ---------------------------- *)

Min(a, b) == IF a <= b THEN a ELSE b

(* The complete annotation files of a run, as paths. *)
Produced(r) ==
    {p \in DOMAIN disk[r] : p[2] = "json" /\ disk[r][p].complete}

HasJpg(r, i) == composite_path(i) \in DOMAIN disk[r]

HasJson(r, i) == json_path(i) \in DOMAIN disk[r]

(* Area of the intersection of two rectangles [[x1,y1],[x2,y2]]. *)
Intersection(p, q) ==
    Max(0, Min(p[2][1], q[2][1]) - Max(p[1][1], q[1][1])) *
    Max(0, Min(p[2][2], q[2][2]) - Max(p[1][2], q[1][2]))

(* Positions are drawn once per foreground (lines 133-134): the number of  *)
(* times a position is rejected and drawn again.                           *)
position_redraws == 0

(* C1: every shape of every produced annotation has                        *)
(* 0 <= x1 < x2 <= imageWidth and 0 <= y1 < y2 <= imageHeight.             *)
BboxInsideCanvas ==
    \A r \in Runs : \A p \in Produced(r) :
        LET ann == disk[r][p]
        IN  \A j \in DOMAIN ann.shapes :
                LET pts == ann.shapes[j].points
                IN  /\ 0 <= pts[1][1] /\ pts[1][1] < pts[2][1]
                    /\ pts[2][1] <= ann.imageWidth
                    /\ 0 <= pts[1][2] /\ pts[1][2] < pts[2][2]
                    /\ pts[2][2] <= ann.imageHeight

(* C2: once _generate_image(i) has returned, the output directory holds    *)
(* both <i>.jpg and <i>.json or neither.                                   *)
PairOrNothing ==
    \A r \in Runs : \A i \in Indices :
        pc[r][i] = "done" => (HasJpg(r, i) <=> HasJson(r, i))

(* C3: no index is attempted twice, and when generate_images has returned  *)
(* every index of 1..image_number was attempted exactly once and has       *)
(* finished, whichever indices failed.                                     *)
EveryIndexAttemptedOnce ==
    \A r \in Runs :
        /\ \A i \in Indices : attempts[r][i] <= 1
        /\ status[r] = "returned" =>
              \A i \in Indices : attempts[r][i] = 1 /\ pc[r][i] = "done"

(* C3 witness: both runs returned although an index failed. *)
BatchSurvivedFailure ==
    /\ \A r \in Runs : status[r] = "returned"
    /\ cfg.image_number >= 2
    /\ \A r \in Runs : log[r][1] = 1 /\ HasJson(r, 2)

(* C4: with avoid_collisions set, two shapes of one annotation intersect   *)
(* only if the later one was placed after its position redraws ran out.    *)
NoOverlapWhenAvoiding ==
    cfg.avoid_collisions =>
        \A r \in Runs : \A p \in Produced(r) :
            LET shapes == disk[r][p].shapes
            IN  \A j \in DOMAIN shapes : \A l \in DOMAIN shapes :
                    j < l =>
                        \/ Intersection(shapes[j].points, shapes[l].points) = 0
                        \/ position_redraws >= 1

(* C5: every foreground request pairs a category with an asset of that     *)
(* same category.                                                          *)
AssetInDrawnCategory ==
    \A i \in Indices : \A j \in DOMAIN draws[i].fgs :
        draws[i].fgs[j].image_path \in foregrounds_dict[draws[i].fgs[j].category]

(* C6: every label of every produced annotation is a key of the catalog,   *)
(* every key is a category directory that held a PNG at construction, and  *)
(* no step after construction changes the catalog.                         *)
LabelsAreCatalogKeys ==
    /\ [](/\ \A r \in Runs : \A p \in Produced(r) :
                \A j \in DOMAIN disk[r][p].shapes :
                    disk[r][p].shapes[j].label \in DOMAIN foregrounds_dict
          /\ \A k \in DOMAIN foregrounds_dict :
                /\ k \in DOMAIN env.layout
                /\ env.layout[k].is_dir
                /\ env.layout[k].pngs # {}
                /\ foregrounds_dict[k] = env.layout[k].pngs)
    /\ [][phase # "new" => foregrounds_dict' = foregrounds_dict]_vars

(* C6 witness: an annotation labelled with a catalog category is on disk,  *)
(* next to a category directory without PNG files.                         *)
LabelledAnnotationWritten ==
    \E r \in Runs : \E p \in Produced(r) :
        /\ disk[r][p].shapes[1].label = "dog"
        /\ "bird" \in DOMAIN env.layout

(* The indices of a run that ended with both files on disk. *)
Pairs(r) == {i \in Indices : HasJpg(r, i) /\ HasJson(r, i)}

(* The indices of a run with a logged failure. *)
Failed(r) == {i \in Indices : log[r][i] >= 1}

(* C7: after generate_images returns, every index either produced its     *)
(* pair of files or logged one failure, never both and never neither, so   *)
(* the pairs number image_number minus the failures.                       *)
CountConservation ==
    \A r \in Runs :
        status[r] = "returned" =>
            /\ \A i \in Indices :
                  /\ log[r][i] <= 1
                  /\ (i \in Pairs(r)) <=> (i \notin Failed(r))
            /\ Cardinality(Pairs(r)) = cfg.image_number - Cardinality(Failed(r))

(* The files index i left in the output directory of run r. *)
FilesOf(r, i) ==
    [p \in {composite_path(i), json_path(i)} \cap DOMAIN disk[r] |-> disk[r][p]]

(* C8: from the same draws the sequential and the parallel run leave the   *)
(* same files with the same contents for every index both have finished,   *)
(* hence the same output directory when both have returned, and every file *)
(* in a directory is one of an attempted index.                            *)
SameOutputsBothModes ==
    /\ \A i \in Indices :
          pc["seq"][i] = "done" /\ pc["par"][i] = "done" =>
              FilesOf("seq", i) = FilesOf("par", i)
    /\ status["seq"] = "returned" /\ status["par"] = "returned" =>
          disk["seq"] = disk["par"]
    /\ \A r \in Runs : \A p \in DOMAIN disk[r] :
          \E i \in Indices :
              attempts[r][i] = 1 /\ p \in {composite_path(i), json_path(i)}

(* C8 witness: both runs returned with a complete pair for index 1 and a   *)
(* truncated annotation for index 2.                                       *)
BothModesReturned ==
    /\ \A r \in Runs : status[r] = "returned"
    /\ cfg.image_number >= 2
    /\ \A r \in Runs :
          /\ json_path(1) \in Produced(r)
          /\ HasJson(r, 2) /\ json_path(2) \notin Produced(r)

(* The inputs construction must refuse. *)
BadInput ==
    \/ ~env.fg_is_dir
    \/ ~env.bg_is_dir
    \/ \A n \in DOMAIN env.layout : ~env.layout[n].is_dir \/ env.layout[n].pngs = {}
    \/ ~\E f \in env.backgrounds : f[2] \in {"png", "jpg", "jpeg"}
    \/ env.out_state = "nonempty"

(* C9: on a missing sub-directory, an empty foreground catalog, an empty   *)
(* background pool or a non-empty output directory, construction never     *)
(* succeeds, no index is attempted and no file is written.                 *)
BadInputNeverGenerates ==
    BadInput =>
        /\ phase \in {"new", "failed"}
        /\ \A r \in Runs :
              /\ status[r] = "idle"
              /\ disk[r] = <<>>
              /\ \A i \in Indices : attempts[r][i] = 0 /\ pc[r][i] = "idle"

(* C9 witness: construction raised on a non-empty output directory with    *)
(* valid inputs.                                                           *)
ConstructionRaised ==
    /\ phase = "failed"
    /\ env.out_state = "nonempty"
    /\ env.fg_is_dir /\ env.bg_is_dir
    /\ DOMAIN foregrounds_dict # {}
    /\ background_images # {}

(* C10: a produced annotation of index i holds exactly as many shapes as   *)
(* foregrounds were requested, between 1 and max_objects_per_image, the    *)
(* j-th shape labelled with the j-th request's category; an index with a   *)
(* foreground that failed to resize has no annotation file.                *)
ShapesFollowRequests ==
    \A r \in Runs : \A i \in Indices :
        /\ json_path(i) \in Produced(r) =>
              LET shapes == disk[r][json_path(i)].shapes
                  fgs == draws[i].fgs
              IN  /\ Len(shapes) = Len(fgs)
                  /\ 1 <= Len(shapes) /\ Len(shapes) <= cfg.max_objects_per_image
                  /\ \A j \in 1..Len(fgs) : shapes[j].label = fgs[j].category
        /\ (\E j \in DOMAIN draws[i].fgs :
                resize_raises(new_size(draws[i].fgs[j].image_path, draws[i].fgs[j].scale)))
              => ~HasJson(r, i)

(* C10 witness: an annotation with two shapes labelled cat, dog in the     *)
(* order of the requests.                                                  *)
TwoShapesInOrder ==
    \E r \in Runs :
        /\ json_path(1) \in Produced(r)
        /\ Len(disk[r][json_path(1)].shapes) = 2
        /\ disk[r][json_path(1)].shapes[1].label = "cat"
        /\ disk[r][json_path(1)].shapes[2].label = "dog"

====
